---- MODULE Spec2Model ----
(***************************************************************************)
(* Model of the org command line interface (scripts/cli.py): the init      *)
(* scaffolder, the main() dispatcher, display_graphical_view() with its    *)
(* curses.wrapper scope, and the collaborators it calls in scripts/views   *)
(* and scripts/validation (query engine, browsing session, validator).     *)
(***************************************************************************)
EXTENDS Integers, Sequences, FiniteSets, TLC

VARIABLES
    pc,             \* position of the cli process
    args,           \* argparse namespace: command, file_type, search_command, search_prop, search_term
    dgv,            \* parameters of the running display_graphical_view call
    orgState,       \* ./.org on disk: "absent", "dir" or "file"
    gitignore,      \* ./.gitignore on disk: NoFile or its content as a token sequence
    kindDirs,       \* kind folders existing in the marked subdirectory
    disk,           \* record files on disk, in directory listing order
    validation,     \* outcome of run_validation in this run: "none", "ok", "raised"
    display,        \* terminal display: "free" or "held"
    pending,        \* kinds still to be loaded by inner()
    entries,        \* local variable entries of inner()
    fullCollection, \* session baseline collection
    viewCollection, \* session current view
    cursorIndex,    \* session selected row
    last,           \* the last session event and the cursor and view it acted on
    exc,            \* an exception is propagating / has ended the process
    reported,       \* the "not initialized" error has been printed
    initRuns,       \* number of init runs so far
    initWrites      \* number of .org entries init has written to .gitignore

vars == <<pc, args, dgv, orgState, gitignore, kindDirs, disk, validation, display,
          pending, entries, fullCollection, viewCollection, cursorIndex, last,
          exc, reported, initRuns, initWrites>>

fsVars == <<orgState, gitignore, kindDirs, initWrites>>
sessVars == <<fullCollection, viewCollection, cursorIndex, last>>

(***************************************************************************)
(* Bounds                                                                  *)
(***************************************************************************)
MaxFiles == 3
MaxInitRuns == 3

(***************************************************************************)
(* Strings are sequences of characters; None is Python's None.             *)
(***************************************************************************)
Chars == {"A", "a", "b"}
None == <<"None">>
NoProp == "None"
Empty == <<>>

Truthy(s) == s # None /\ s # Empty
TruthyProp(p) == p # NoProp /\ p # ""

Code(c) == CASE c = "A" -> 65 [] c = "a" -> 97 [] c = "b" -> 98

LowerChar(c) == IF c = "A" THEN "a" ELSE c
Lower(s) == [i \in 1..Len(s) |-> LowerChar(s[i])]

RECURSIVE LexLess(_, _)
LexLess(s, t) ==
    IF t = <<>> THEN FALSE
    ELSE IF s = <<>> THEN TRUE
    ELSE IF Code(s[1]) # Code(t[1]) THEN Code(s[1]) < Code(t[1])
    ELSE LexLess(Tail(s), Tail(t))

LexLeq(s, t) == s = t \/ LexLess(s, t)

IsSubstring(t, v) ==
    \E i \in 0..(Len(v) - Len(t)) : \A j \in 1..Len(t) : v[i + j] = t[j]

RECURSIVE IsSubsequence(_, _)
IsSubsequence(t, v) ==
    IF t = <<>> THEN TRUE
    ELSE IF v = <<>> THEN FALSE
    ELSE IF t[1] = v[1] THEN IsSubsequence(Tail(t), Tail(v))
    ELSE IsSubsequence(t, Tail(v))

Reverse(s) == [i \in 1..Len(s) |-> s[Len(s) + 1 - i]]

(***************************************************************************)
(* Records: one file = one record.                                         *)
(***************************************************************************)
Kinds == {"notes", "todos", "events"}
KindOrder == <<"notes", "todos", "events">>
PropNames == {"status", "owner"}

Files ==
    { [sourcePath |-> 1, kind |-> "notes",  status |-> <<"a">>, rawContent |-> <<"b">>],
      [sourcePath |-> 2, kind |-> "notes",  status |-> <<"a">>, rawContent |-> <<"a", "b">>],
      [sourcePath |-> 3, kind |-> "todos",  status |-> <<"A">>, rawContent |-> <<"b">>],
      [sourcePath |-> 4, kind |-> "events", status |-> None,    rawContent |-> <<"a">>] }

Paths(C) == {C[i].sourcePath : i \in 1..Len(C)}

RECURSIVE SeqsUpTo(_)
SeqsUpTo(n) ==
    IF n = 0 THEN {<<>>}
    ELSE LET shorter == SeqsUpTo(n - 1)
         IN shorter \cup
            {Append(s, f) : s \in {x \in shorter : Len(x) = n - 1},
                            f \in Files}

Collections == {C \in SeqsUpTo(MaxFiles) : Cardinality(Paths(C)) = Len(C)}

HasProp(r, p) == p = "status" /\ r.status # None
PropValue(r, p) == r.status

(***************************************************************************)
(* Record Loader (scripts/views.load_files_from_subdir): the files of one  *)
(* kind folder in listing order; a missing kind folder yields no records.  *)
(***************************************************************************)
load_files_from_subdir(kind) ==
    IF kind \notin kindDirs THEN <<>>
    ELSE LET OfKind(r) == r.kind = kind IN SelectSeq(disk, OfKind)

\* the load calls inner() makes for a file_type, in order
LoadKinds(file_type) ==
    IF file_type = "all" THEN KindOrder
    ELSE IF file_type \in Kinds THEN <<file_type>>
    ELSE <<>>

RECURSIVE LoadAll(_)
LoadAll(kinds) ==
    IF kinds = <<>> THEN <<>>
    ELSE load_files_from_subdir(Head(kinds)) \o LoadAll(Tail(kinds))

(***************************************************************************)
(* Query Engine (scripts/views): fuzzy_search, exact_search, sort_items.   *)
(***************************************************************************)
FuzzyMatch(r, prop, term) ==
    LET hay == IF HasProp(r, prop) THEN PropValue(r, prop) ELSE r.rawContent
    IN  \/ IsSubstring(Lower(term), Lower(hay))
        \/ IsSubsequence(Lower(term), Lower(hay))

fuzzy_search(C, prop, term) ==
    IF ~TruthyProp(prop) \/ ~Truthy(term) THEN C
    ELSE LET Match(r) == FuzzyMatch(r, prop, term) IN SelectSeq(C, Match)

exact_search(C, prop, term) ==
    IF ~TruthyProp(prop) \/ ~Truthy(term) THEN C
    ELSE LET Match(r) == HasProp(r, prop) /\ PropValue(r, prop) = term
         IN  SelectSeq(C, Match)

\* insert x behind every record of the sorted sequence S whose key is <= key(x)
InsertStable(S, x, prop) ==
    LET n == Cardinality({i \in 1..Len(S) :
                            LexLeq(PropValue(S[i], prop), PropValue(x, prop))})
    IN  SubSeq(S, 1, n) \o <<x>> \o SubSeq(S, n + 1, Len(S))

RECURSIVE StableSort(_, _)
StableSort(C, prop) ==
    IF C = <<>> THEN <<>>
    ELSE InsertStable(StableSort(SubSeq(C, 1, Len(C) - 1), prop), C[Len(C)], prop)

SortAscending(C, prop) ==
    LET Has(r) == HasProp(r, prop)
        Lacks(r) == ~HasProp(r, prop)
    IN  StableSort(SelectSeq(C, Has), prop) \o SelectSeq(C, Lacks)

sort_items(C, prop, reverse) ==
    IF ~TruthyProp(prop) THEN C
    ELSE IF reverse THEN Reverse(SortAscending(C, prop))
    ELSE SortAscending(C, prop)

(***************************************************************************)
(* main(): the view subcommand's dispatch to display_graphical_view.       *)
(***************************************************************************)
Params(ft, sp, st, ex, so, rev) ==
    [file_type |-> ft, search_prop |-> sp, search_term |-> st, exact |-> ex,
     sort_prop |-> so, reverse |-> rev]

NoParams == Params("None", NoProp, None, FALSE, NoProp, FALSE)

\* variant: the 'r' branch loses reverse=True
DispatchNoReverse(a) ==
    IF a.search_command = "s" /\ TruthyProp(a.search_prop) /\ Truthy(a.search_term)
    THEN Params(a.file_type, a.search_prop, a.search_term, FALSE, NoProp, FALSE)
    ELSE IF a.search_command = "es" /\ TruthyProp(a.search_prop) /\ Truthy(a.search_term)
    THEN Params(a.file_type, a.search_prop, a.search_term, TRUE, NoProp, FALSE)
    ELSE IF a.search_command \in {"o", "r"} /\ TruthyProp(a.search_prop)
    THEN Params(a.file_type, NoProp, None, FALSE, a.search_prop, FALSE)
    ELSE Params(a.file_type, NoProp, None, FALSE, NoProp, FALSE)

\* variant: the 'a' branch passes the property and term on as a search
DispatchResetFilters(a) ==
    IF a.search_command \in {"s", "a"} /\ TruthyProp(a.search_prop) /\ Truthy(a.search_term)
    THEN Params(a.file_type, a.search_prop, a.search_term, FALSE, NoProp, FALSE)
    ELSE IF a.search_command = "es" /\ TruthyProp(a.search_prop) /\ Truthy(a.search_term)
    THEN Params(a.file_type, a.search_prop, a.search_term, TRUE, NoProp, FALSE)
    ELSE IF a.search_command = "o" /\ TruthyProp(a.search_prop)
    THEN Params(a.file_type, NoProp, None, FALSE, a.search_prop, FALSE)
    ELSE IF a.search_command = "r" /\ TruthyProp(a.search_prop)
    THEN Params(a.file_type, NoProp, None, FALSE, a.search_prop, TRUE)
    ELSE Params(a.file_type, NoProp, None, FALSE, NoProp, FALSE)

Dispatch(a) ==
    IF a.search_command = "s" /\ TruthyProp(a.search_prop) /\ Truthy(a.search_term)
    THEN Params(a.file_type, a.search_prop, a.search_term, FALSE, NoProp, FALSE)
    ELSE IF a.search_command = "es" /\ TruthyProp(a.search_prop) /\ Truthy(a.search_term)
    THEN Params(a.file_type, a.search_prop, a.search_term, TRUE, NoProp, FALSE)
    ELSE IF a.search_command = "o" /\ TruthyProp(a.search_prop)
    THEN Params(a.file_type, NoProp, None, FALSE, a.search_prop, FALSE)
    ELSE IF a.search_command = "r" /\ TruthyProp(a.search_prop)
    THEN Params(a.file_type, NoProp, None, FALSE, a.search_prop, TRUE)
    ELSE IF a.search_command = "a"
    THEN Params(a.file_type, NoProp, None, FALSE, NoProp, FALSE)
    ELSE Params(a.file_type, NoProp, None, FALSE, NoProp, FALSE)

\* the session views.main runs on the no-subcommand path: every kind, no query
MainViewParams == Params("all", NoProp, None, FALSE, NoProp, FALSE)

(***************************************************************************)
(* inner(): search and sort applied to the loaded entries.                 *)
(***************************************************************************)
\* variant: the exact flag selects the wrong search
ApplySearchSwapped(d, C) ==
    IF TruthyProp(d.search_prop) /\ Truthy(d.search_term)
    THEN IF d.exact THEN fuzzy_search(C, d.search_prop, d.search_term)
         ELSE exact_search(C, d.search_prop, d.search_term)
    ELSE C

ApplySearch(d, C) ==
    IF TruthyProp(d.search_prop) /\ Truthy(d.search_term)
    THEN IF d.exact THEN exact_search(C, d.search_prop, d.search_term)
         ELSE fuzzy_search(C, d.search_prop, d.search_term)
    ELSE C

ApplySort(d, C) ==
    IF TruthyProp(d.sort_prop) THEN sort_items(C, d.sort_prop, d.reverse)
    ELSE C

InnerQuery(d, C) == ApplySort(d, ApplySearch(d, C))

(***************************************************************************)
(* init(): the .org scaffold and the .gitignore entry.                     *)
(***************************************************************************)
NL == "NL"
NoFile == <<"NoFile">>

\* file.readlines(): the lines of a file, each with its line terminator
RECURSIVE ReadLines(_)
ReadLines(c) ==
    IF c = <<>> THEN <<>>
    ELSE LET ends == {i \in 1..Len(c) : c[i] = NL}
             n == IF ends = {} THEN Len(c)
                  ELSE CHOOSE i \in ends : \A j \in ends : i <= j
         IN  <<SubSeq(c, 1, n)>> \o ReadLines(SubSeq(c, n + 1, Len(c)))

InList(x, lines) == \E i \in 1..Len(lines) : lines[i] = x

\* the test that guards the append to an existing .gitignore
OrgListed(lines) == InList(<<".org", NL>>, lines) \/ InList(<<".org">>, lines)

InitFs ==
    IF orgState = "dir"
    THEN UNCHANGED fsVars
    ELSE /\ orgState' = "dir"
         /\ kindDirs' = Kinds
         /\ IF gitignore # NoFile
            THEN IF ~OrgListed(ReadLines(gitignore))
                 THEN /\ gitignore' = gitignore \o <<"/.org", NL>>
                      /\ initWrites' = initWrites + 1
                 ELSE UNCHANGED <<gitignore, initWrites>>
            ELSE /\ gitignore' = <<".org", NL>>
                 /\ initWrites' = initWrites + 1

(***************************************************************************)
(* The command line                                                        *)
(***************************************************************************)
Commands == {"init", "view", "val", "None"}
FileTypes == {"notes", "todos", "events", "all"}
SearchCommands == {"None", "s", "es", "o", "r", "a"}
PropArgs == {NoProp, "", "status", "owner"}
Terms == {<<"a">>, <<"A">>}
TermArgs == {None, Empty} \cup Terms

Namespace(c, ft, sc, sp, st) ==
    [command |-> c, file_type |-> ft, search_command |-> sc, search_prop |-> sp,
     search_term |-> st]

\* the optional positionals fill from the left: no property without a command,
\* no term without a property
ViewArgs ==
    {a \in {Namespace("view", ft, sc, sp, st) :
               ft \in FileTypes, sc \in SearchCommands, sp \in PropArgs, st \in TermArgs} :
        /\ a.search_command = "None" => a.search_prop = NoProp
        /\ a.search_prop = NoProp => a.search_term = None}

ArgSpace ==
    ViewArgs \cup {Namespace(c, "None", "None", NoProp, None) : c \in Commands \ {"view"}}

OrgStates == {"absent", "dir", "file"}
NoEvent == [event |-> "none", cursor |-> 0, rows |-> 0]

Init ==
    /\ pc = "start"
    /\ args \in ArgSpace
    /\ dgv = NoParams
    /\ orgState \in OrgStates
    /\ gitignore = NoFile
    /\ disk \in Collections
    /\ kindDirs = {disk[i].kind : i \in 1..Len(disk)}
    /\ validation = "none"
    /\ display = "free"
    /\ pending = <<>>
    /\ entries = <<>>
    /\ fullCollection = <<>>
    /\ viewCollection = <<>>
    /\ cursorIndex = 0
    /\ last = NoEvent
    /\ exc = FALSE
    /\ reported = FALSE
    /\ initRuns = 0
    /\ initWrites = 0

runVars == <<args, disk, initRuns>>

\* main(): args.command == 'init'
CmdInit ==
    /\ pc = "start" /\ args.command = "init"
    /\ InitFs
    /\ pc' = "done"
    /\ UNCHANGED <<args, dgv, disk, validation, display, pending, entries, sessVars,
                   exc, reported, initRuns>>

\* main(): args.command == 'view': run_validation(), then the dispatch
CmdView ==
    /\ pc = "start" /\ args.command = "view"
    /\ \E ok \in BOOLEAN :
         IF ok
         THEN /\ validation' = "ok"
              /\ dgv' = Dispatch(args)
              /\ pc' = "acquire"
              /\ exc' = exc
         ELSE /\ validation' = "raised"
              /\ exc' = TRUE
              /\ pc' = "done"
              /\ dgv' = dgv
    /\ UNCHANGED <<runVars, fsVars, display, pending, entries, sessVars, reported>>

\* main(): args.command == 'val'
CmdVal ==
    /\ pc = "start" /\ args.command = "val"
    /\ \E ok \in BOOLEAN :
         /\ validation' = IF ok THEN "ok" ELSE "raised"
         /\ exc' = ~ok
    /\ pc' = "done"
    /\ UNCHANGED <<runVars, fsVars, dgv, display, pending, entries, sessVars, reported>>

\* main(): no subcommand: the .org check, then curses.wrapper(views.main)
CmdNone ==
    /\ pc = "start" /\ args.command = "None"
    /\ IF orgState = "absent"
       THEN /\ reported' = TRUE
            /\ pc' = "done"
            /\ dgv' = dgv
       ELSE /\ dgv' = MainViewParams
            /\ pc' = "acquire"
            /\ reported' = reported
    /\ UNCHANGED <<runVars, fsVars, validation, display, pending, entries, sessVars, exc>>

\* curses.wrapper: initscr() and the terminal modes, then the call of its function
WrapperEnter(ok) ==
    IF ok
    THEN /\ display' = "held"
         /\ pc' = "load"
         /\ pending' = LoadKinds(dgv.file_type)
         /\ entries' = <<>>
         /\ exc' = exc
    ELSE /\ exc' = TRUE
         /\ pc' = "done"
         /\ UNCHANGED <<display, pending, entries>>

AcquireDisplay ==
    /\ pc = "acquire"
    /\ \E ok \in BOOLEAN : WrapperEnter(ok)
    /\ UNCHANGED <<runVars, fsVars, dgv, validation, sessVars, reported>>

\* variant: the display scope has no finally clause
WrapperRaiseNoFinally ==
    /\ exc' = TRUE
    /\ pc' = "done"
    /\ display' = display

\* curses.wrapper: an exception leaving its function runs the finally clause
WrapperRaise ==
    /\ exc' = TRUE
    /\ pc' = "unwind"
    /\ display' = display

\* inner(): one views.load_files_from_subdir call
LoadStep ==
    /\ pc = "load" /\ pending # <<>>
    /\ \/ /\ entries' = entries \o load_files_from_subdir(Head(pending))
          /\ pending' = Tail(pending)
          /\ UNCHANGED <<pc, exc, display>>
       \/ /\ WrapperRaise
          /\ UNCHANGED <<entries, pending>>
    /\ UNCHANGED <<runVars, fsVars, dgv, validation, sessVars, reported>>

\* inner(): search and sort of the loaded entries
Query ==
    /\ pc = "load" /\ pending = <<>>
    /\ \/ /\ entries' = InnerQuery(dgv, entries)
          /\ pc' = "display"
          /\ UNCHANGED <<exc, display>>
       \/ /\ WrapperRaise
          /\ entries' = entries
    /\ UNCHANGED <<runVars, fsVars, dgv, validation, pending, sessVars, reported>>

(***************************************************************************)
(* Browser Session (scripts/views.display_files_with_view)                 *)
(***************************************************************************)
Event(e) == [event |-> e, cursor |-> cursorIndex, rows |-> Len(viewCollection)]
\* variant: moving down does not clamp at the last row
CursorDownUnclamped(i, n) == i + 1
\* variant: reset keeps the current view
ResetViewKeeps(full, view) == view

CursorUp(i, n) == IF i > 0 THEN i - 1 ELSE i
CursorDown(i, n) == IF i < n - 1 THEN i + 1 ELSE i
ResetView(full, view) == full

\* inner(): views.display_files_with_view(stdscr, entries, file_type) starts
StartSession ==
    /\ pc = "display"
    /\ \/ /\ fullCollection' = entries
          /\ viewCollection' = entries
          /\ cursorIndex' = 0
          /\ last' = NoEvent
          /\ pc' = "browsing"
          /\ UNCHANGED <<exc, display>>
       \/ /\ WrapperRaise
          /\ UNCHANGED sessVars
    /\ UNCHANGED <<runVars, fsVars, dgv, validation, pending, entries, reported>>

sessFrame == <<runVars, fsVars, dgv, validation, display, pending, entries, exc,
               reported, pc>>

MoveUp ==
    /\ pc = "browsing"
    /\ cursorIndex' = CursorUp(cursorIndex, Len(viewCollection))
    /\ last' = Event("up")
    /\ UNCHANGED <<fullCollection, viewCollection, sessFrame>>

MoveDown ==
    /\ pc = "browsing"
    /\ cursorIndex' = CursorDown(cursorIndex, Len(viewCollection))
    /\ last' = Event("down")
    /\ UNCHANGED <<fullCollection, viewCollection, sessFrame>>

SessionSearch ==
    /\ pc = "browsing"
    /\ \E exact \in BOOLEAN, prop \in PropNames, term \in Terms :
         viewCollection' = IF exact THEN exact_search(fullCollection, prop, term)
                           ELSE fuzzy_search(fullCollection, prop, term)
    /\ cursorIndex' = 0
    /\ last' = Event("search")
    /\ UNCHANGED <<fullCollection, sessFrame>>

SessionSort ==
    /\ pc = "browsing"
    /\ \E prop \in PropNames, reverse \in BOOLEAN :
         viewCollection' = sort_items(viewCollection, prop, reverse)
    /\ cursorIndex' = 0
    /\ last' = Event("sort")
    /\ UNCHANGED <<fullCollection, sessFrame>>

SessionReset ==
    /\ pc = "browsing"
    /\ viewCollection' = ResetView(fullCollection, viewCollection)
    /\ cursorIndex' = 0
    /\ last' = Event("reset")
    /\ UNCHANGED <<fullCollection, sessFrame>>

\* the session's records and state are discarded when it returns or raises
SessionEnd ==
    /\ fullCollection' = <<>>
    /\ viewCollection' = <<>>
    /\ cursorIndex' = 0
    /\ last' = NoEvent

Quit ==
    /\ pc = "browsing"
    /\ pc' = "unwind"
    /\ SessionEnd
    /\ UNCHANGED <<runVars, fsVars, dgv, validation, display, pending, entries, exc,
                   reported>>

SessionFail ==
    /\ pc = "browsing"
    /\ WrapperRaise
    /\ SessionEnd
    /\ UNCHANGED <<runVars, fsVars, dgv, validation, pending, entries, reported>>

\* curses.wrapper: the finally clause (endwin) on return and on exception
WrapperFinally ==
    /\ pc = "unwind"
    /\ display' = "free"
    /\ pc' = "done"
    /\ UNCHANGED <<runVars, fsVars, dgv, validation, pending, entries, exc, reported,
                   sessVars>>

Next ==
    \/ CmdInit
    \/ CmdView
    \/ CmdVal
    \/ CmdNone
    \/ AcquireDisplay
    \/ LoadStep
    \/ Query
    \/ StartSession
    \/ Quit
    \/ SessionFail
    \/ WrapperFinally

\* one run of the cli; the session's input events are left to SpecSession
Spec == Init /\ [][Next]_vars

(***************************************************************************)
(* The browsing session's input events, from the states in which a run of  *)
(* the view subcommand starts its session.                                 *)
(***************************************************************************)
SessionArgs ==
    {Namespace("view", ft, sc, "status", <<"a">>) :
        ft \in {"notes", "all"}, sc \in SearchCommands}

InitSession ==
    /\ pc = "browsing"
    /\ args \in SessionArgs
    /\ dgv = Dispatch(args)
    /\ orgState = "dir"
    /\ gitignore = NoFile
    /\ disk \in Collections
    /\ kindDirs = {disk[i].kind : i \in 1..Len(disk)}
    /\ validation = "ok"
    /\ display = "held"
    /\ pending = <<>>
    /\ entries = InnerQuery(dgv, LoadAll(LoadKinds(dgv.file_type)))
    /\ fullCollection = entries
    /\ viewCollection = entries
    /\ cursorIndex = 0
    /\ last = NoEvent
    /\ exc = FALSE
    /\ reported = FALSE
    /\ initRuns = 0
    /\ initWrites = 0

NextSession ==
    \/ MoveUp
    \/ MoveDown
    \/ SessionSearch
    \/ SessionSort
    \/ SessionReset
    \/ Quit
    \/ SessionFail
    \/ WrapperFinally

SpecSession == InitSession /\ [][NextSession]_vars

(***************************************************************************)
(* Repeated init runs in one directory, interleaved with removals of .org  *)
(***************************************************************************)
InitialGitignores ==
    {NoFile, <<>>, <<"foo", NL>>, <<"foo">>, <<".org", NL>>, <<".org">>,
     <<"foo", NL, ".org", NL>>}

InitDir ==
    /\ pc = "shell"
    /\ args = Namespace("init", "None", "None", NoProp, None)
    /\ dgv = NoParams
    /\ orgState \in OrgStates
    /\ gitignore \in InitialGitignores
    /\ kindDirs \in SUBSET Kinds
    /\ disk = <<>>
    /\ validation = "none"
    /\ display = "free"
    /\ pending = <<>>
    /\ entries = <<>>
    /\ fullCollection = <<>>
    /\ viewCollection = <<>>
    /\ cursorIndex = 0
    /\ last = NoEvent
    /\ exc = FALSE
    /\ reported = FALSE
    /\ initRuns = 0
    /\ initWrites = 0

initFrame == <<pc, args, dgv, disk, validation, display, pending, entries, sessVars,
               exc, reported>>

\* one whole `org init` invocation
InitRun ==
    /\ pc = "shell"
    /\ initRuns < MaxInitRuns
    /\ InitFs
    /\ initRuns' = initRuns + 1
    /\ UNCHANGED initFrame

\* the user removes the .org directory (or file) between runs
RemoveOrg ==
    /\ pc = "shell"
    /\ orgState # "absent"
    /\ initRuns < MaxInitRuns
    /\ orgState' = "absent"
    /\ UNCHANGED <<gitignore, kindDirs, initWrites, initRuns, initFrame>>

NextInit == InitRun \/ RemoveOrg

SpecInit == InitDir /\ [][NextInit]_vars

(***************************************************************************)
(* Properties                                                              *)
(***************************************************************************)
\* the Collection inner() has loaded for a file_type
Loaded(file_type) == LoadAll(LoadKinds(file_type))

\* the entries the session is handed when the view command line is a
ViewOf(a) == InnerQuery(Dispatch(a), Loaded(a.file_type))

WithCommand(sc, sp, st) ==
    [args EXCEPT !.search_command = sc, !.search_prop = sp, !.search_term = st]

Position(C, r) == CHOOSE i \in 1..Len(C) : C[i] = r

\* C1: in a browsing session, whatever searches, sorts and cursor moves came
\* before, a reset leaves viewCollection equal to fullCollection (same records,
\* same order) and cursorIndex 0, and fullCollection stays the collection the
\* session was started with.
C1_ResetRestoresFull ==
    pc = "browsing" =>
        /\ fullCollection = entries
        /\ last.event = "reset" =>
             viewCollection = fullCollection /\ cursorIndex = 0

\* a reset has acted on a view narrowed by a search, with the cursor moved down
C1_Witness ==
    /\ pc = "browsing"
    /\ last.event = "reset"
    /\ last.rows < Len(fullCollection)
    /\ last.cursor > 0
    /\ viewCollection = fullCollection
    /\ cursorIndex = 0

\* C2: cursorIndex is always within [0, len(viewCollection)-1], or 0 when the
\* view is empty, and a move up at the first row or down at the last row leaves
\* it where it is.
C2_CursorInRange ==
    /\ cursorIndex >= 0
    /\ cursorIndex <= (IF viewCollection = <<>> THEN 0 ELSE Len(viewCollection) - 1)
    /\ (pc = "browsing" /\ last.event = "up" /\ last.cursor = 0) => cursorIndex = 0
    /\ (pc = "browsing" /\ last.event = "down" /\ last.cursor = last.rows - 1)
          => cursorIndex = last.cursor

\* a search has shrunk the view to fewer rows than the cursor's previous index
C2_Witness ==
    /\ pc = "browsing"
    /\ last.event = "search"
    /\ viewCollection # <<>>
    /\ last.cursor > Len(viewCollection) - 1
    /\ cursorIndex = 0

\* C3: whenever the terminal display is held, the validator has run and
\* completed successfully in this run, and after a validator failure the display
\* is never acquired.
C3_ValidatedBeforeSession ==
    /\ display = "held" => validation = "ok"
    /\ validation = "raised" => display = "free" /\ pc = "done"

\* C4: when .org is absent, a view or no-subcommand run never acquires the
\* display, and ends with the problem reported.
C4_NoSessionWithoutScaffold ==
    (orgState = "absent" /\ args.command \in {"view", "None"}) =>
        /\ display = "free"
        /\ pc = "done" => (reported \/ exc)

\* C5: the display is held only inside the curses.wrapper scope, and when the
\* process has ended (after quit or after a failure raised while loading,
\* querying or displaying) the display is released.
C5_DisplayReleased ==
    /\ pc = "done" => display = "free"
    /\ display = "held" => pc \in {"load", "display", "browsing", "unwind"}

\* the process has ended by a failure raised in a load call inside the session
C5_Witness ==
    /\ pc = "done"
    /\ exc
    /\ pending # <<>>
    /\ validation = "ok"
    /\ display = "free"

\* C6: for the loaded Collection and every property, the entries of the 'r'
\* (reverse sort) command are the exact reversal of the entries of the 'o'
\* (sort) command, records missing the property last under 'o' and first under
\* 'r', and reverse-sorting the 'o' result again gives its exact reversal.
C6_ReverseIsReversal ==
    pc = "display" =>
        \A p \in {q \in PropArgs : TruthyProp(q)} :
            LET asc == ViewOf(WithCommand("o", p, None))
                desc == ViewOf(WithCommand("r", p, None))
            IN  /\ desc = Reverse(asc)
                /\ sort_items(asc, p, TRUE) = Reverse(asc)
                /\ \A i, j \in 1..Len(asc) :
                     (i < j /\ HasProp(asc[j], p)) => HasProp(asc[i], p)
                /\ \A i, j \in 1..Len(desc) :
                     (i < j /\ HasProp(desc[i], p)) => HasProp(desc[j], p)
                /\ (args.search_command = "r" /\ args.search_prop = p) => entries = desc

\* an 'r' run whose entries start with a record missing the property and go on
\* with two records of equal value in the reverse of their loaded order
C6_Witness ==
    /\ pc = "display"
    /\ args.search_command = "r"
    /\ args.search_prop = "status"
    /\ Len(entries) = 3
    /\ ~HasProp(entries[1], "status")
    /\ HasProp(entries[2], "status")
    /\ entries[2].status = entries[3].status
    /\ Position(Loaded(args.file_type), entries[2])
         > Position(Loaded(args.file_type), entries[3])

\* C7: for the loaded Collection and every property and term, the entries of
\* the exact search command 'es' are a subsequence of the entries of the fuzzy
\* search command 's' (same records, same relative order); when the search is
\* applied every 'es' entry has the property; with an empty term or absent
\* property both are the loaded Collection.
C7_ExactWithinFuzzy ==
    pc = "display" =>
        \A p \in PropArgs, t \in TermArgs :
            LET ex == ViewOf(WithCommand("es", p, t))
                fz == ViewOf(WithCommand("s", p, t))
            IN  /\ IsSubsequence(ex, fz)
                /\ (TruthyProp(p) /\ Truthy(t)) =>
                     \A i \in 1..Len(ex) : HasProp(ex[i], p) /\ PropValue(ex[i], p) = t
                /\ ~(TruthyProp(p) /\ Truthy(t)) =>
                     ex = Loaded(args.file_type) /\ fz = Loaded(args.file_type)
                /\ (args.search_command = "es" /\ args.search_prop = p
                      /\ args.search_term = t) => entries = ex

\* an 'es' run with matches, where the fuzzy search matches strictly more
C7_Witness ==
    /\ pc = "display"
    /\ args.search_command = "es"
    /\ entries # <<>>
    /\ Len(entries) < Len(ViewOf(WithCommand("s", args.search_prop, args.search_term)))

NoQuery(a) ==
    \/ a.search_command \in {"s", "es"}
         /\ ~(TruthyProp(a.search_prop) /\ Truthy(a.search_term))
    \/ a.search_command \in {"o", "r"} /\ ~TruthyProp(a.search_prop)
    \/ a.search_command \in {"a", "None"}

\* C8: when the view command line has s/es without property or term, o/r
\* without property, 'a', or no command, and whenever display_graphical_view runs
\* without search property and term and without sort property, the entries
\* handed to the session are exactly the loaded Collection.
C8_NoQueryIsNoOp ==
    (pc = "display" /\ args.command = "view") =>
        /\ NoQuery(args) => entries = Loaded(args.file_type)
        /\ (~(TruthyProp(dgv.search_prop) /\ Truthy(dgv.search_term))
              /\ ~TruthyProp(dgv.sort_prop)) => entries = Loaded(dgv.file_type)

\* an 'a' run given a property and a term that a search would have filtered by
C8_Witness ==
    /\ pc = "display"
    /\ args.search_command = "a"
    /\ TruthyProp(args.search_prop)
    /\ Truthy(args.search_term)
    /\ Len(entries) >= 2
    /\ entries = Loaded(args.file_type)
    /\ fuzzy_search(entries, args.search_prop, args.search_term) # entries

\* C9: in a view run, whenever the display is held every load_files_from_subdir
\* call has already finished.
C9_LoadedBeforeAcquire ==
    (args.command = "view" /\ display = "held") => ~(pc = "load" /\ pending # <<>>)

\* C10: over init runs interleaved with removals of .org, init writes at most
\* one .org entry to .gitignore.
C10_SingleOrgEntry == initWrites <= 1

====
